---- MODULE Spec2Model ----
(***************************************************************************)
(* A state-machine model of GameClient (src/game.js): the entity registry  *)
(* (players), the per-entity render state (playerRenderState), the camera  *)
(* (viewportX, viewportY), the input intent tracker (pressedDirections,    *)
(* heldOrder), the cosmetic jump (jumpState) and the websocket the intents *)
(* are written to.  Every handler of the class is one action.              *)
(*                                                                         *)
(* Exceptions.  An exception raised inside handleServerMessage is caught   *)
(* by websocket.onmessage and leaves the assignments made before it; an    *)
(* exception raised inside render() ends gameLoop before it requests the   *)
(* next frame (rafPending).  The messages of the model carry entity        *)
(* records that are objects, and a join carries players and avatars; the   *)
(* exception render() can raise in the model is drawImage's on a world     *)
(* image whose load failed.                                                *)
(*                                                                         *)
(* Time.  A tick takes the time since the previous frame as its input.     *)
(* frameSinceTrigger is lastFrameTimeMs relative to the time of the jump   *)
(* trigger, which may fall anywhere between two frames.                    *)
(*                                                                         *)
(* JavaScript values.  An entity record is a TLA+ record that holds only   *)
(* the fields the server sent, so a field that is absent in JavaScript is  *)
(* absent from the record's DOMAIN.  A value that takes part in arithmetic *)
(* (renderX, renderY, viewportX, viewportY) is a tagged record: Num(n),    *)
(* NaN or Undefined, with JavaScript's rule that arithmetic on anything    *)
(* but two numbers gives NaN.                                              *)
(*                                                                         *)
(* Numbers.  JavaScript numbers are binary floating point: the result of   *)
(* an addition is rounded to the nearest representable number (ties to     *)
(* even).  The model keeps positions on a uniform grid whose step is one   *)
(* representable step and rounds the same way; times are whole             *)
(* milliseconds and window sizes are even, so that canvas.width / 2 is on  *)
(* the grid.                                                               *)
(***************************************************************************)
EXTENDS Integers, Sequences, FiniteSets, TLC

VARIABLES
    players,            \* this.players: id -> entity record (only the fields received)
    playerRenderState,  \* this.playerRenderState: id -> [renderX, renderY, animMs, frameIndex]
    avatars,            \* this.avatars: the names registered in the visual-set table
    loadedImages,       \* this.loadedImages: the names with decoded frames
    myPlayerId,         \* this.myPlayerId
    viewportX,          \* this.viewportX
    viewportY,          \* this.viewportY
    canvasWidth,        \* this.canvas.width
    canvasHeight,       \* this.canvas.height
    pressedDirections,  \* this.pressedDirections
    heldOrder,          \* this.heldOrder, most recent first
    jumpState,          \* this.jumpState: [isJumping, elapsedMs]
    frameSinceTrigger,  \* this.lastFrameTimeMs minus the time of the jump trigger (0 when
                        \* no jump is in progress)
    worldImage,         \* this.worldImage: "loading", "complete" or "broken"
    rafPending,         \* a requestAnimationFrame callback of the game loop is scheduled
    wsState,            \* this.websocket.readyState
    intents,            \* the sendMove/sendStop calls of the latest input event
    sent,               \* what the latest handler that sends (an input event, onopen)
                        \* wrote to the websocket
    lastOp,             \* the latest handler that ran, with its argument
    hist                \* the input events since no direction was held (at most three,
                        \* then "more")

vars == <<players, playerRenderState, avatars, loadedImages, myPlayerId,
          viewportX, viewportY, canvasWidth, canvasHeight,
          pressedDirections, heldOrder, jumpState, frameSinceTrigger,
          worldImage, rafPending, wsState, intents, sent, lastOp, hist>>

-----------------------------------------------------------------------------
(* Program constants *)

worldWidth == 2048
worldHeight == 2048
animationFrameDurationMs == 120
positionSmoothingPerSecond == 10
durationMs == 400
FrameCount == 3

Null == "null"

-----------------------------------------------------------------------------
(* JavaScript values and arithmetic *)

Num(n) == [t |-> "num", v |-> n]
NaN == [t |-> "NaN", v |-> 0]
Undefined == [t |-> "undefined", v |-> 0]

IsNum(a) == a.t = "num"

Min(a, b) == IF a <= b THEN a ELSE b
Max(a, b) == IF a >= b THEN a ELSE b

\* a - b
JsSub(a, b) == IF IsNum(a) /\ IsNum(b) THEN Num(a.v - b.v) ELSE NaN

\* Math.min(a, b), Math.max(a, b): NaN as soon as one argument is no number
JsMin(a, b) == IF IsNum(a) /\ IsNum(b) THEN Num(Min(a.v, b.v)) ELSE NaN
JsMax(a, b) == IF IsNum(a) /\ IsNum(b) THEN Num(Max(a.v, b.v)) ELSE NaN

\* n / d rounded to the nearest integer, ties to even (d > 0)
RoundHalfEven(n, d) ==
    LET q == n \div d
        r == n % d
    IN  IF 2 * r < d THEN q
        ELSE IF 2 * r > d THEN q + 1
        ELSE IF q % 2 = 0 THEN q ELSE q + 1

\* the field f of entity record p as a number operand: undefined when absent
Field(p, f) == IF f \in DOMAIN p THEN Num(p[f]) ELSE Undefined

\* the truthiness of p.isMoving
IsMoving(p) == "isMoving" \in DOMAIN p /\ p.isMoving = TRUE

EmptyMap == [i \in {} |-> 0]

-----------------------------------------------------------------------------
(* Initial state: the constructor has run, the websocket is connecting *)

WindowSizes == {1000, 2048, 3000}

\* the state the constructor leaves, for a window of one of the given sizes
Constructed(widths, heights) ==
    /\ players = EmptyMap
    /\ playerRenderState = EmptyMap
    /\ avatars = {}
    /\ loadedImages = {}
    /\ myPlayerId = Null
    /\ viewportX = Num(0)
    /\ viewportY = Num(0)
    /\ canvasWidth \in widths
    /\ canvasHeight \in heights
    /\ pressedDirections = {}
    /\ heldOrder = <<>>
    /\ jumpState = [isJumping |-> FALSE, elapsedMs |-> 0]
    /\ frameSinceTrigger = 0
    /\ worldImage = "loading"
    /\ rafPending = TRUE
    /\ wsState = "connecting"
    /\ intents = <<>>
    /\ sent = <<>>
    /\ lastOp = [op |-> "init"]
    /\ hist = <<>>

Init == Constructed({1000}, {1000})

-----------------------------------------------------------------------------
(* Message Reconciler *)

\* ensureRenderState(playerId, x, y): seeds a render state unless one exists
EnsureRenderState(rs, playerId, x, y) ==
    IF playerId \in DOMAIN rs
    THEN rs
    ELSE [id \in DOMAIN rs \cup {playerId} |->
            IF id = playerId
            THEN [renderX |-> x, renderY |-> y, animMs |-> 0, frameIndex |-> 0]
            ELSE rs[id]]

\* for (const id in ents) ensureRenderState(id, ents[id].x, ents[id].y)
EnsureAll(rs, ents) ==
    [id \in DOMAIN rs \cup DOMAIN ents |->
        IF id \in DOMAIN ents
        THEN EnsureRenderState(rs, id, Field(ents[id], "x"), Field(ents[id], "y"))[id]
        ELSE rs[id]]

\* Object.assign(this.players, upd): every own property of upd is copied, so
\* players[id] becomes the record the message carries for id
AssignPlayers(pl, upd) ==
    [id \in DOMAIN pl \cup DOMAIN upd |->
        IF id \in DOMAIN upd THEN upd[id] ELSE pl[id]]

\* a removal that empties the whole map
DeleteEverything(map, id) == [k \in {} |-> map[k]]

\* delete map[id]
Delete(map, id) == [k \in DOMAIN map \ {id} |-> map[k]]

\* centerViewportOnPlayer(): the new <<viewportX, viewportY>>
CenterViewportOnPlayer(pl, rs, myId, cw, ch, vx, vy) ==
    IF myId = Null \/ myId \notin DOMAIN pl
    THEN <<vx, vy>>
    ELSE LET hasRender == myId \in DOMAIN rs
             focusX == IF hasRender THEN rs[myId].renderX ELSE Field(pl[myId], "x")
             focusY == IF hasRender THEN rs[myId].renderY ELSE Field(pl[myId], "y")
             centerX == Num(cw \div 2)
             centerY == Num(ch \div 2)
         IN  << JsMax(Num(0), JsMin(JsSub(focusX, centerX), Num(worldWidth - cw))),
                JsMax(Num(0), JsMin(JsSub(focusY, centerY), Num(worldHeight - ch))) >>

InputUnchanged == UNCHANGED <<pressedDirections, heldOrder, jumpState,
                              frameSinceTrigger, worldImage, rafPending, wsState,
                              intents, sent, hist>>

\* a handler that resets the registry and the local identifier when the join
\* is rejected
HandleServerMessageResetsOnReject(m) ==
    /\ lastOp' = [op |-> "message", msg |-> m, known |-> DOMAIN players]
    /\ InputUnchanged
    /\ UNCHANGED <<canvasWidth, canvasHeight>>
    /\ CASE m.action = "join_game" /\ m.success ->
              LET rs == EnsureAll(playerRenderState, m.players)
                  vp == CenterViewportOnPlayer(m.players, rs, m.playerId,
                                               canvasWidth, canvasHeight,
                                               viewportX, viewportY)
              IN  /\ myPlayerId' = m.playerId
                  /\ players' = m.players
                  /\ avatars' = m.avatars
                  /\ loadedImages' = loadedImages \cup m.avatars
                  /\ playerRenderState' = rs
                  /\ viewportX' = vp[1]
                  /\ viewportY' = vp[2]
         [] m.action = "join_game" /\ ~m.success ->
              /\ myPlayerId' = Null
              /\ players' = EmptyMap
              /\ playerRenderState' = EmptyMap
              /\ UNCHANGED <<avatars, loadedImages, viewportX, viewportY>>
         [] m.action = "player_joined" /\ "player" \notin DOMAIN m ->
              \* message.player.id raises before anything is written
              UNCHANGED <<players, playerRenderState, avatars, loadedImages,
                          myPlayerId, viewportX, viewportY>>
         [] m.action = "player_joined" /\ "player" \in DOMAIN m
                                      /\ "avatar" \notin DOMAIN m ->
              \* message.avatar.name raises after the registry was written
              /\ players' = AssignPlayers(players, [id \in {m.id} |-> m.player])
              /\ UNCHANGED <<playerRenderState, avatars, loadedImages,
                             myPlayerId, viewportX, viewportY>>
         [] m.action = "player_joined" /\ "player" \in DOMAIN m
                                      /\ "avatar" \in DOMAIN m ->
              /\ players' = AssignPlayers(players, [id \in {m.id} |-> m.player])
              /\ avatars' = avatars \cup {m.avatar}
              /\ loadedImages' = loadedImages \cup {m.avatar}
              /\ playerRenderState' =
                    EnsureRenderState(playerRenderState, m.id,
                                      Field(m.player, "x"), Field(m.player, "y"))
              /\ UNCHANGED <<myPlayerId, viewportX, viewportY>>
         [] m.action = "players_moved" ->
              /\ players' = AssignPlayers(players, m.players)
              /\ playerRenderState' = EnsureAll(playerRenderState, m.players)
              /\ UNCHANGED <<avatars, loadedImages, myPlayerId, viewportX, viewportY>>
         [] m.action = "player_left" ->
              /\ players' = Delete(players, m.playerId)
              /\ playerRenderState' = Delete(playerRenderState, m.playerId)
              /\ UNCHANGED <<avatars, loadedImages, myPlayerId, viewportX, viewportY>>
         [] OTHER ->
              UNCHANGED <<players, playerRenderState, avatars, loadedImages,
                          myPlayerId, viewportX, viewportY>>

\* handleServerMessage(m) inside the try block of websocket.onmessage, for a
\* message m that parses; an exception raised on the way ends the handler with
\* the assignments made so far
HandleServerMessage(m) ==
    /\ lastOp' = [op |-> "message", msg |-> m, known |-> DOMAIN players]
    /\ InputUnchanged
    /\ UNCHANGED <<canvasWidth, canvasHeight>>
    /\ CASE m.action = "join_game" /\ m.success ->
              LET rs == EnsureAll(playerRenderState, m.players)
                  vp == CenterViewportOnPlayer(m.players, rs, m.playerId,
                                               canvasWidth, canvasHeight,
                                               viewportX, viewportY)
              IN  /\ myPlayerId' = m.playerId
                  /\ players' = m.players
                  /\ avatars' = m.avatars
                  /\ loadedImages' = loadedImages \cup m.avatars
                  /\ playerRenderState' = rs
                  /\ viewportX' = vp[1]
                  /\ viewportY' = vp[2]
         [] m.action = "join_game" /\ ~m.success ->
              UNCHANGED <<players, playerRenderState, avatars, loadedImages,
                          myPlayerId, viewportX, viewportY>>
         [] m.action = "player_joined" /\ "player" \notin DOMAIN m ->
              \* message.player.id raises before anything is written
              UNCHANGED <<players, playerRenderState, avatars, loadedImages,
                          myPlayerId, viewportX, viewportY>>
         [] m.action = "player_joined" /\ "player" \in DOMAIN m
                                      /\ "avatar" \notin DOMAIN m ->
              \* message.avatar.name raises after the registry was written
              /\ players' = AssignPlayers(players, [id \in {m.id} |-> m.player])
              /\ UNCHANGED <<playerRenderState, avatars, loadedImages,
                             myPlayerId, viewportX, viewportY>>
         [] m.action = "player_joined" /\ "player" \in DOMAIN m
                                      /\ "avatar" \in DOMAIN m ->
              /\ players' = AssignPlayers(players, [id \in {m.id} |-> m.player])
              /\ avatars' = avatars \cup {m.avatar}
              /\ loadedImages' = loadedImages \cup {m.avatar}
              /\ playerRenderState' =
                    EnsureRenderState(playerRenderState, m.id,
                                      Field(m.player, "x"), Field(m.player, "y"))
              /\ UNCHANGED <<myPlayerId, viewportX, viewportY>>
         [] m.action = "players_moved" ->
              /\ players' = AssignPlayers(players, m.players)
              /\ playerRenderState' = EnsureAll(playerRenderState, m.players)
              /\ UNCHANGED <<avatars, loadedImages, myPlayerId, viewportX, viewportY>>
         [] m.action = "player_left" ->
              /\ players' = Delete(players, m.playerId)
              /\ playerRenderState' = Delete(playerRenderState, m.playerId)
              /\ UNCHANGED <<avatars, loadedImages, myPlayerId, viewportX, viewportY>>
         [] OTHER ->
              UNCHANGED <<players, playerRenderState, avatars, loadedImages,
                          myPlayerId, viewportX, viewportY>>

\* drawAvatars(): the identifiers the draw pass visits, for (playerId in players)
DrawnIds(pl) == DOMAIN pl

\* a frame that is not JSON: JSON.parse raises and the catch block logs it
Garbage == [json |-> FALSE]

\* a frame holding the JSON text of m
Json(m) == [json |-> TRUE, message |-> m]

\* websocket.onmessage
onMessage(data) ==
    IF data.json
    THEN HandleServerMessage(data.message)
    ELSE /\ lastOp' = [op |-> "message", msg |-> [action |-> "(unparseable)"],
                       known |-> DOMAIN players]
         /\ InputUnchanged
         /\ UNCHANGED <<players, playerRenderState, avatars, loadedImages, myPlayerId,
                        viewportX, viewportY, canvasWidth, canvasHeight>>

\* worldImage.onload
onWorldLoad ==
    /\ worldImage = "loading"
    /\ worldImage' = "complete"
    /\ lastOp' = [op |-> "worldload"]
    /\ UNCHANGED <<players, playerRenderState, avatars, loadedImages, myPlayerId,
                   viewportX, viewportY, canvasWidth, canvasHeight,
                   pressedDirections, heldOrder, jumpState, frameSinceTrigger,
                   rafPending, wsState, intents, sent, hist>>

\* worldImage.onerror
onWorldError ==
    /\ worldImage = "loading"
    /\ worldImage' = "broken"
    /\ lastOp' = [op |-> "worlderror"]
    /\ UNCHANGED <<players, playerRenderState, avatars, loadedImages, myPlayerId,
                   viewportX, viewportY, canvasWidth, canvasHeight,
                   pressedDirections, heldOrder, jumpState, frameSinceTrigger,
                   rafPending, wsState, intents, sent, hist>>

\* window 'resize' (setupCanvas)
Resize(w, h) ==
    /\ canvasWidth' = w
    /\ canvasHeight' = h
    /\ lastOp' = [op |-> "resize"]
    /\ InputUnchanged
    /\ UNCHANGED <<players, playerRenderState, avatars, loadedImages, myPlayerId,
                   viewportX, viewportY>>

-----------------------------------------------------------------------------
(* Frame Driver and Render-State Interpolator *)

\* the interpolation factor without the clamp to 1
SmoothingTUnclamped(dtMs) == dtMs * positionSmoothingPerSecond

\* t = Math.min(1, dt * positionSmoothingPerSecond) with dt = dtMs / 1000,
\* in thousandths
SmoothingT(dtMs) == Min(1000, dtMs * positionSmoothingPerSecond)

\* an interpolation that starts from the target and steps toward the old value
LerpFromTarget(r, p, t) ==
    IF IsNum(r) /\ IsNum(p)
    THEN Num(RoundHalfEven(p.v * 1000 + (r.v - p.v) * t, 1000))
    ELSE NaN

\* r + (p - r) * t, t in thousandths; the sum is rounded to the nearest grid
\* point, as the floating-point addition rounds it
Lerp(r, p, t) ==
    IF IsNum(r) /\ IsNum(p)
    THEN Num(RoundHalfEven(r.v * 1000 + (p.v - r.v) * t, 1000))
    ELSE NaN

\* the frame loop with a cycle one frame too long
RECURSIVE AdvanceFramesLongCycle(_, _)
AdvanceFramesLongCycle(animMs, frameIndex) ==
    IF animMs >= animationFrameDurationMs
    THEN AdvanceFramesLongCycle(animMs - animationFrameDurationMs,
                                (frameIndex + 1) % (FrameCount + 1))
    ELSE [animMs |-> animMs, frameIndex |-> frameIndex]

\* while (animMs >= animationFrameDurationMs) { animMs -= ...; frameIndex = (frameIndex + 1) % 3 }
RECURSIVE AdvanceFrames(_, _)
AdvanceFrames(animMs, frameIndex) ==
    IF animMs >= animationFrameDurationMs
    THEN AdvanceFrames(animMs - animationFrameDurationMs, (frameIndex + 1) % FrameCount)
    ELSE [animMs |-> animMs, frameIndex |-> frameIndex]

\* an idle branch that clears the accumulator and leaves the cursor
AnimateKeepsFrame(st, p, dtMs) ==
    IF IsMoving(p)
    THEN AdvanceFrames(st.animMs + dtMs, st.frameIndex)
    ELSE [animMs |-> 0, frameIndex |-> st.frameIndex]

\* the animation branch of render() for one entity
Animate(st, p, dtMs) ==
    IF IsMoving(p)
    THEN AdvanceFrames(st.animMs + dtMs, st.frameIndex)
    ELSE [animMs |-> 0, frameIndex |-> 0]

\* the body of render()'s loop for one entity p with render state st
StepRenderState(st, p, dtMs) ==
    LET t == SmoothingT(dtMs)
        a == Animate(st, p, dtMs)
    IN  [renderX |-> Lerp(st.renderX, Field(p, "x"), t),
         renderY |-> Lerp(st.renderY, Field(p, "y"), t),
         animMs |-> a.animMs,
         frameIndex |-> a.frameIndex]

\* the jump timing at the end of render()
AdvanceJump(js, dtMs) ==
    IF js.isJumping
    THEN IF js.elapsedMs + dtMs >= durationMs
         THEN [isJumping |-> FALSE, elapsedMs |-> 0]
         ELSE [isJumping |-> TRUE, elapsedMs |-> js.elapsedMs + dtMs]
    ELSE js

\* one requestAnimationFrame callback of gameLoop: render(), then the request
\* for the next frame; elapsed = now - lastFrameTimeMs.  drawWorld()'s drawImage
\* raises on an image whose load failed: render() ends there, before the jump
\* timing, and gameLoop ends before it requests the next frame
Tick(elapsed) ==
    LET dtMs == Max(0, elapsed)
        drawn == worldImage # "broken"
        js == AdvanceJump(jumpState, dtMs)
        seeded == EnsureAll(playerRenderState, players)
        rs == [id \in DOMAIN seeded |->
                 IF id \in DOMAIN players
                 THEN StepRenderState(seeded[id], players[id], dtMs)
                 ELSE seeded[id]]
        vp == CenterViewportOnPlayer(players, rs, myPlayerId,
                                     canvasWidth, canvasHeight, viewportX, viewportY)
    IN  /\ rafPending
        /\ elapsed + frameSinceTrigger >= 0    \* now is not before the jump trigger
        /\ playerRenderState' = rs
        /\ viewportX' = vp[1]
        /\ viewportY' = vp[2]
        /\ jumpState' = IF drawn THEN js ELSE jumpState
        /\ frameSinceTrigger' = IF jumpState'.isJumping
                                THEN frameSinceTrigger + elapsed ELSE 0
        /\ rafPending' = drawn
        /\ lastOp' = [op |-> "tick", dtMs |-> dtMs,
                      idled |-> {id \in DOMAIN players : ~IsMoving(players[id])},
                      was |-> seeded]
        /\ UNCHANGED <<players, avatars, loadedImages, myPlayerId,
                       canvasWidth, canvasHeight, pressedDirections, heldOrder,
                       worldImage, wsState, intents, sent, hist>>

-----------------------------------------------------------------------------
(* Input Intent Tracker *)

Directions == {"up", "down", "left", "right"}

directionForKey(key) ==
    CASE key = "ArrowUp" -> "up"
      [] key = "ArrowDown" -> "down"
      [] key = "ArrowLeft" -> "left"
      [] key = "ArrowRight" -> "right"
      [] OTHER -> Null

MoveMsg(direction) == [action |-> "move", direction |-> direction]
StopMsg == [action |-> "stop"]
JoinMsg == [action |-> "join_game"]

\* sendMove(direction): what reaches the websocket
sendMove(ws, direction) == IF ws # "open" THEN <<>> ELSE <<MoveMsg(direction)>>

\* sendStop(): what reaches the websocket
sendStop(ws) == IF ws # "open" THEN <<>> ELSE <<StopMsg>>

\* setMyLocalMovement that returns early when no direction is given
setMyLocalMovementNeedsDirection(pl, myId, direction, isMoving) ==
    IF myId = Null \/ myId \notin DOMAIN pl \/ direction = Null
    THEN pl
    ELSE [pl EXCEPT ![myId] =
            [f \in DOMAIN pl[myId] \cup {"isMoving", "facing"} |->
                IF f = "facing" THEN direction
                ELSE IF f = "isMoving" THEN isMoving
                ELSE pl[myId][f]]]

\* setMyLocalMovement(direction, isMoving): the new this.players
setMyLocalMovement(pl, myId, direction, isMoving) ==
    IF myId = Null \/ myId \notin DOMAIN pl
    THEN pl
    ELSE LET me == pl[myId]
             fields == DOMAIN me \cup {"isMoving"}
                          \cup (IF direction # Null THEN {"facing"} ELSE {})
         IN  [pl EXCEPT ![myId] =
                [f \in fields |->
                    IF f = "facing" /\ direction # Null THEN direction
                    ELSE IF f = "isMoving" THEN isMoving
                    ELSE me[f]]]

\* array.filter((d) => d !== direction)
Without(seq, direction) == SelectSeq(seq, LAMBDA d : d # direction)

\* a trigger that restarts a jump in progress
triggerJumpRestarts(js) == [isJumping |-> TRUE, elapsedMs |-> 0]

\* triggerJump()
triggerJump(js) ==
    IF ~js.isJumping THEN [isJumping |-> TRUE, elapsedMs |-> 0] ELSE js

\* the record of input events: restarted by an event that finds no direction held
Event(ev, key) == [ev |-> ev, key |-> key]
More == <<Event("more", "")>>
Push(h, order, e) ==
    IF order = <<>> THEN <<e>>
    ELSE IF h # More /\ Len(h) < 3 THEN Append(h, e)
    ELSE More

RenderUnchanged == UNCHANGED <<playerRenderState, avatars, loadedImages, myPlayerId,
                               viewportX, viewportY, canvasWidth, canvasHeight, wsState,
                               worldImage, rafPending>>

\* performance.now() - this.lastFrameTimeMs when the key event arrives
TriggerLags == {0, 50}

\* this.onKeyDown
onKeyDown(key) ==
    LET direction == directionForKey(key)
        isNew == direction \notin pressedDirections
    IN  /\ lastOp' = [op |-> "keydown", key |-> key]
        /\ hist' = Push(hist, heldOrder, Event("keydown", key))
        /\ RenderUnchanged
        /\ IF key = " "
           THEN /\ jumpState' = triggerJump(jumpState)
                /\ \E lag \in TriggerLags :
                      frameSinceTrigger' = IF jumpState.isJumping
                                           THEN frameSinceTrigger ELSE 0 - lag
                /\ intents' = <<>>
                /\ sent' = <<>>
                /\ UNCHANGED <<players, pressedDirections, heldOrder>>
           ELSE IF direction = Null
           THEN /\ intents' = <<>>
                /\ sent' = <<>>
                /\ UNCHANGED <<players, pressedDirections, heldOrder, jumpState,
                               frameSinceTrigger>>
           ELSE /\ pressedDirections' = pressedDirections \cup {direction}
                /\ heldOrder' = IF isNew THEN <<direction>> \o heldOrder ELSE heldOrder
                /\ intents' = <<MoveMsg(direction)>>
                /\ sent' = sendMove(wsState, direction)
                /\ players' = setMyLocalMovement(players, myPlayerId, direction, TRUE)
                /\ UNCHANGED <<jumpState, frameSinceTrigger>>

\* onKeyUp that emits nothing while another direction is still held
KeyUpResultNoResume(pressed, order, direction) ==
    [pressed |-> pressed \ {direction},
     order |-> Without(order, direction),
     intents |-> IF pressed \ {direction} = {} THEN <<StopMsg>> ELSE <<>>]

\* onKeyUp that forgets to take the released direction out of heldOrder
KeyUpResultKeepsOrder(pressed, order, direction) ==
    [pressed |-> pressed \ {direction},
     order |-> order,
     intents |-> IF pressed \ {direction} = {} THEN <<StopMsg>>
                 ELSE IF order # <<>> THEN <<MoveMsg(order[1])>>
                 ELSE <<>>]

\* onKeyUp that resumes the least recently pressed direction still held
KeyUpResultResumesOldest(pressed, order, direction) ==
    LET order1 == Without(order, direction)
    IN  [pressed |-> pressed \ {direction},
         order |-> order1,
         intents |-> IF pressed \ {direction} = {} THEN <<StopMsg>>
                     ELSE IF order1 # <<>> THEN <<MoveMsg(order1[Len(order1)])>>
                     ELSE <<>>]

\* the state and the intents this.onKeyUp leaves for a direction key
KeyUpResult(pressed, order, direction) ==
    LET held == direction \in pressed
        pressed1 == pressed \ {direction}
        order1 == IF held THEN Without(order, direction) ELSE order
    IN  [pressed |-> pressed1,
         order |-> order1,
         intents |-> IF pressed1 = {} THEN <<StopMsg>>
                     ELSE IF order1 # <<>> THEN <<MoveMsg(order1[1])>>
                     ELSE <<>>]

\* this.onKeyUp
onKeyUp(key) ==
    LET direction == directionForKey(key)
        r == KeyUpResult(pressedDirections, heldOrder, direction)
    IN  /\ lastOp' = [op |-> "keyup", key |-> key]
        /\ hist' = Push(hist, heldOrder, Event("keyup", key))
        /\ RenderUnchanged
        /\ UNCHANGED <<jumpState, frameSinceTrigger>>
        /\ IF direction = Null
           THEN /\ intents' = <<>>
                /\ sent' = <<>>
                /\ UNCHANGED <<players, pressedDirections, heldOrder>>
           ELSE /\ pressedDirections' = r.pressed
                /\ heldOrder' = r.order
                /\ intents' = r.intents
                /\ sent' = IF r.intents = <<>> THEN <<>>
                           ELSE IF r.intents[1].action = "stop" THEN sendStop(wsState)
                           ELSE sendMove(wsState, r.intents[1].direction)
                /\ players' = IF r.intents = <<>> THEN players
                              ELSE IF r.intents[1].action = "stop"
                              THEN setMyLocalMovement(players, myPlayerId, Null, FALSE)
                              ELSE setMyLocalMovement(players, myPlayerId,
                                                      r.intents[1].direction, TRUE)

\* a blur listener without the guard on pressedDirections.size
onBlurUnguarded ==
    /\ lastOp' = [op |-> "blur"]
    /\ hist' = Push(hist, heldOrder, Event("blur", ""))
    /\ RenderUnchanged
    /\ UNCHANGED <<jumpState, frameSinceTrigger>>
    /\ pressedDirections' = {}
    /\ heldOrder' = <<>>
    /\ intents' = <<StopMsg>>
    /\ sent' = sendStop(wsState)
    /\ players' = setMyLocalMovement(players, myPlayerId, Null, FALSE)

\* the window 'blur' listener
onBlur ==
    /\ lastOp' = [op |-> "blur"]
    /\ hist' = Push(hist, heldOrder, Event("blur", ""))
    /\ RenderUnchanged
    /\ UNCHANGED <<jumpState, frameSinceTrigger>>
    /\ IF pressedDirections # {}
       THEN /\ pressedDirections' = {}
            /\ heldOrder' = <<>>
            /\ intents' = <<StopMsg>>
            /\ sent' = sendStop(wsState)
            /\ players' = setMyLocalMovement(players, myPlayerId, Null, FALSE)
       ELSE /\ intents' = <<>>
            /\ sent' = <<>>
            /\ UNCHANGED <<players, pressedDirections, heldOrder>>

\* websocket.onopen: joinGame() sends the join message
onOpen ==
    /\ wsState = "connecting"
    /\ wsState' = "open"
    /\ sent' = <<JoinMsg>>
    /\ lastOp' = [op |-> "open"]
    /\ UNCHANGED <<players, playerRenderState, avatars, loadedImages, myPlayerId,
                   viewportX, viewportY, canvasWidth, canvasHeight,
                   pressedDirections, heldOrder, jumpState, frameSinceTrigger,
                   worldImage, rafPending, intents, hist>>

\* websocket.onclose
onClose ==
    /\ wsState \in {"connecting", "open"}
    /\ wsState' = "closed"
    /\ lastOp' = [op |-> "close"]
    /\ UNCHANGED <<players, playerRenderState, avatars, loadedImages, myPlayerId,
                   viewportX, viewportY, canvasWidth, canvasHeight,
                   pressedDirections, heldOrder, jumpState, frameSinceTrigger,
                   worldImage, rafPending, intents, sent, hist>>

-----------------------------------------------------------------------------
(* Inputs *)

Ids == {"p1", "p2"}
Keys == {"ArrowUp", "ArrowDown", "ArrowLeft", "ArrowRight", " ", "a"}

Entity(x, y, facing, isMoving) ==
    [x |-> x, y |-> y, facing |-> facing, isMoving |-> isMoving]

JoinAccepted(id, ents, avs) ==
    [action |-> "join_game", success |-> TRUE, playerId |-> id, players |-> ents,
     avatars |-> avs]
JoinRejected == [action |-> "join_game", success |-> FALSE]
PlayerJoined(id, ent, av) ==
    [action |-> "player_joined", id |-> id, player |-> ent, avatar |-> av]
PlayersMoved(ents) == [action |-> "players_moved", players |-> ents]
PlayerLeft(id) == [action |-> "player_left", playerId |-> id]
UnknownMsg == [action |-> "unknown"]

\* player_joined messages that lack fields the handler reads
PlayerJoinedNoAvatar(id, ent) == [action |-> "player_joined", id |-> id, player |-> ent]
PlayerJoinedNoPlayer == [action |-> "player_joined"]

-----------------------------------------------------------------------------
(* The input tracker with a joined local player *)

InputMsgs ==
    { JoinAccepted("p1", [id \in {"p1"} |-> Entity(100, 100, "south", FALSE)], {"a1"}),
      PlayerLeft("p1") }

NextInput ==
    \/ \E key \in Keys : onKeyDown(key)
    \/ \E key \in Keys : onKeyUp(key)
    \/ onBlur
    \/ onOpen
    \/ onClose
    \/ \E m \in InputMsgs : HandleServerMessage(m)

SpecInput == Init /\ [][NextInput]_vars

-----------------------------------------------------------------------------
(* The whole client: every handler, for one joined player *)

Next ==
    \/ \E key \in Keys : onKeyDown(key)
    \/ \E key \in Keys : onKeyUp(key)
    \/ onBlur
    \/ onOpen
    \/ onClose
    \/ \E m \in InputMsgs : HandleServerMessage(m)
    \/ \E elapsed \in {animationFrameDurationMs} : Tick(elapsed)
    \/ \E w, h \in {1000} : Resize(w, h)
    \/ onWorldLoad
    \/ onWorldError

Spec == Init /\ [][Next]_vars

-----------------------------------------------------------------------------
(* Claims about the input tracker, checked under SpecInput *)

ArrowKeys == {"ArrowUp", "ArrowDown", "ArrowLeft", "ArrowRight"}

\* the input events since nothing was held are exactly: press a, press b, release c
Pressed2Released(a, b, c) ==
    hist = <<Event("keydown", a), Event("keydown", b), Event("keyup", c)>>

\* what the websocket got from the latest input event, if it is the latest handler
SentMatchesIntents ==
    lastOp.op \in {"keydown", "keyup", "blur"}
        => sent = (IF wsState = "open" THEN intents ELSE <<>>)

\* C3: for distinct directions A and B, after press A, press B, release B (from
\* nothing held) A is the only held direction, heads the recency list, and the
\* release issued exactly one intent, move(A), and no stop; the websocket got it
\* when it was open.
C3_ReleaseNewestResumesOlder ==
    \A a, b \in ArrowKeys :
        (a # b /\ Pressed2Released(a, b, b)) =>
            /\ heldOrder = <<directionForKey(a)>>
            /\ pressedDirections = {directionForKey(a)}
            /\ intents = <<MoveMsg(directionForKey(a))>>
            /\ SentMatchesIntents

C3_Witness ==
    /\ Pressed2Released("ArrowLeft", "ArrowUp", "ArrowUp")
    /\ lastOp = [op |-> "keyup", key |-> "ArrowUp"]
    /\ heldOrder = <<"left">>
    /\ wsState = "open"
    /\ sent = <<MoveMsg("left")>>

\* C4 as stated: after press A, press B, release A the active direction remains B
\* and the release issued no intent at all (no new move(B), no move(A), no stop).
C4_Original ==
    \A a, b \in ArrowKeys :
        (a # b /\ Pressed2Released(a, b, a)) =>
            /\ heldOrder = <<directionForKey(b)>>
            /\ intents = <<>>

\* C4 amended: after press A, press B, release A the active direction remains B
\* and the release issued exactly one intent, a repeated move(B): no move(A) and
\* no stop.
C4_ReleaseOlderReemitsNewer ==
    \A a, b \in ArrowKeys :
        (a # b /\ Pressed2Released(a, b, a)) =>
            /\ heldOrder = <<directionForKey(b)>>
            /\ pressedDirections = {directionForKey(b)}
            /\ intents = <<MoveMsg(directionForKey(b))>>
            /\ SentMatchesIntents

C4_Witness ==
    /\ Pressed2Released("ArrowLeft", "ArrowUp", "ArrowLeft")
    /\ lastOp = [op |-> "keyup", key |-> "ArrowLeft"]
    /\ heldOrder = <<"up">>
    /\ wsState = "open"
    /\ sent = <<MoveMsg("up")>>

InputEvent ==
    \/ \E key \in Keys : onKeyDown(key)
    \/ \E key \in Keys : onKeyUp(key)
    \/ onBlur

TrackerUnchanged == UNCHANGED <<pressedDirections, heldOrder>>

\* C5 as stated: an input event that leaves the held set and the recency list
\* unchanged issues no intent.
C5_Original == [][(InputEvent /\ TrackerUnchanged) => intents' = <<>>]_vars

\* C5 amended: an input event that leaves the held set and the recency list
\* unchanged issues no intent unless it is a key-down or key-up of a direction
\* key: a key-down of a held direction D issues move(D) again, and a key-up of a
\* direction that is not held issues stop when nothing is held and move(front of
\* the recency list) otherwise.
C5_IntentsOfIdleEvents ==
    [][(InputEvent /\ TrackerUnchanged) =>
        LET d == IF lastOp'.op = "blur" THEN Null ELSE directionForKey(lastOp'.key)
        IN  intents' =
              IF d = Null THEN <<>>
              ELSE IF lastOp'.op = "keydown" THEN <<MoveMsg(d)>>
              ELSE IF pressedDirections = {} THEN <<StopMsg>>
              ELSE <<MoveMsg(heldOrder[1])>>]_vars

\* a focus loss that finds nothing held: nothing changes and nothing is issued
C5_Witness ==
    /\ hist = <<Event("blur", "")>>
    /\ lastOp = [op |-> "blur"]
    /\ pressedDirections = {}
    /\ intents = <<>>
    /\ wsState = "open"
    /\ sent = <<>>

\* C6: a focus loss while at least one direction is held empties the held set and
\* the recency list, issues exactly one stop and no move, and clears the movement
\* flag of the local player's entity.
C6_BlurReleasesAll ==
    [][(onBlur /\ pressedDirections # {}) =>
        /\ pressedDirections' = {}
        /\ heldOrder' = <<>>
        /\ intents' = <<StopMsg>>
        /\ sent' = (IF wsState = "open" THEN <<StopMsg>> ELSE <<>>)
        /\ (myPlayerId \in DOMAIN players =>
                /\ "isMoving" \in DOMAIN players'[myPlayerId]
                /\ players'[myPlayerId].isMoving = FALSE)]_vars

C6_Witness ==
    /\ lastOp = [op |-> "blur"]
    /\ hist = <<Event("keydown", "ArrowLeft"), Event("keydown", "ArrowUp"),
                Event("blur", "")>>
    /\ pressedDirections = {}
    /\ heldOrder = <<>>
    /\ intents = <<StopMsg>>
    /\ sent = <<StopMsg>>
    /\ myPlayerId \in DOMAIN players
    /\ players[myPlayerId].isMoving = FALSE

Cardinals == {"north", "south", "east", "west"}

\* C17: in every reachable state the facing of every entity of the registry is
\* one of north, south, east, west; key presses and releases put no other value
\* there.
C17_FacingIsCardinal ==
    \A id \in DOMAIN players :
        "facing" \in DOMAIN players[id] => players[id].facing \in Cardinals

\* C20 as stated: whenever an input event issues a move intent and leaves a
\* direction held, the direction of that intent, and the facing it gives the
\* local player, is the front of the recency list.
C20_Original ==
    [][InputEvent =>
        ((intents' # <<>> /\ intents'[1].action = "move" /\ pressedDirections' # {}) =>
            /\ intents'[1].direction = heldOrder'[1]
            /\ (myPlayerId # Null /\ myPlayerId \in DOMAIN players') =>
                  players'[myPlayerId].facing = heldOrder'[1])]_vars

\* C20 amended: whenever an input event issues a move intent and leaves a
\* direction held, the direction D of that intent is the front of the recency
\* list, unless the event is a repeated key-down of a held direction D, which
\* issues move(D) and leaves the recency list as it was; in both cases the local
\* player's facing is set to D.
C20_LastMoveIsFrontOrRepeat ==
    [][InputEvent =>
        ((intents' # <<>> /\ intents'[1].action = "move" /\ pressedDirections' # {}) =>
            LET D == intents'[1].direction
            IN  /\ \/ D = heldOrder'[1]
                   \/ /\ lastOp'.op = "keydown"
                      /\ directionForKey(lastOp'.key) = D
                      /\ D \in pressedDirections
                      /\ heldOrder' = heldOrder
                /\ (myPlayerId # Null /\ myPlayerId \in DOMAIN players') =>
                      players'[myPlayerId].facing = D)]_vars

\* with up then down pressed, a repeated key-down of up issued move(up) and
\* turned the local player up while down is the front of the recency list
C20_Witness ==
    /\ hist = <<Event("keydown", "ArrowUp"), Event("keydown", "ArrowDown"),
                Event("keydown", "ArrowUp")>>
    /\ heldOrder = <<"down", "up">>
    /\ intents = <<MoveMsg("up")>>
    /\ myPlayerId = "p1"
    /\ "p1" \in DOMAIN players
    /\ players["p1"].facing = "up"

-----------------------------------------------------------------------------
(* The reconciler and the frame driver over two entities *)

FullEnts == { Entity(100, 100, "south", FALSE), Entity(104, 100, "east", TRUE) }

\* batch updates may carry only some fields of an entity
PartialEnts == { [x |-> 104, y |-> 100], [isMoving |-> TRUE] }

\* the maps from the set ids to records of ents
Maps(ids, ents) == [ids -> ents]

Snapshots == Maps({"p1"}, FullEnts) \cup Maps(Ids, {Entity(100, 100, "south", FALSE)})

Batches == UNION { Maps({id}, FullEnts \cup PartialEnts) : id \in Ids }
               \cup Maps(Ids, {[isMoving |-> TRUE]})

RecMsgs ==
    { JoinAccepted("p1", ents, {"a1"}) : ents \in Snapshots }
    \cup { JoinRejected, UnknownMsg }
    \cup { PlayerJoined(id, ent, "a1") : id \in Ids, ent \in FullEnts }
    \cup { PlayersMoved(ents) : ents \in Batches }
    \cup { PlayerLeft(id) : id \in Ids }

RecFrameMs == {120}

NextRec ==
    \/ \E m \in RecMsgs : HandleServerMessage(m)
    \/ \E elapsed \in RecFrameMs : Tick(elapsed)

SpecRec == Init /\ [][NextRec]_vars

-----------------------------------------------------------------------------
(* Claims about the reconciler, checked under SpecRec *)

\* C1: after every handler and every tick, the identifiers that have a render
\* state are exactly the identifiers of the entity registry.
C1_RenderStatesMatchRegistry == DOMAIN playerRenderState = DOMAIN players

\* C2: a batch update that names a known entity and carries only some of its
\* fields keeps every field it does not carry at its previous value and replaces
\* the fields it carries.
C2_BatchUpdateMerges ==
    [][\A m \in RecMsgs :
        (m.action = "players_moved" /\ HandleServerMessage(m)) =>
            \A id \in DOMAIN m.players \cap DOMAIN players :
                /\ \A f \in DOMAIN players[id] \ DOMAIN m.players[id] :
                      /\ f \in DOMAIN players'[id]
                      /\ players'[id][f] = players[id][f]
                /\ \A f \in DOMAIN m.players[id] :
                      players'[id][f] = m.players[id][f]]_vars

\* C12: a peer-left event for P removes P from the registry and from the render
\* states, so that the draw pass visits P zero times, and leaves every other
\* entity record and every other render state as it was.
C12_PeerLeftRemovesOnlyP ==
    [][\A m \in RecMsgs :
        (m.action = "player_left" /\ HandleServerMessage(m)) =>
            /\ DOMAIN players' = DOMAIN players \ {m.playerId}
            /\ DOMAIN playerRenderState' = DOMAIN playerRenderState \ {m.playerId}
            /\ m.playerId \notin DrawnIds(players')
            /\ \A id \in DOMAIN players' : players'[id] = players[id]
            /\ \A id \in DOMAIN playerRenderState' :
                  playerRenderState'[id] = playerRenderState[id]]_vars

\* p2 was known, left, and is gone from both maps while p1 is still in both
C12_Witness ==
    /\ lastOp.op = "message"
    /\ lastOp.msg = PlayerLeft("p2")
    /\ "p2" \in lastOp.known
    /\ "p2" \notin DOMAIN players
    /\ "p2" \notin DOMAIN playerRenderState
    /\ "p1" \in DOMAIN players
    /\ "p1" \in DOMAIN playerRenderState

\* C14: a rejected join result or a message of unrecognized kind changes no
\* state: local identifier, registry, render states, visual-set table and camera
\* are as before; so a client that had no local identifier and an empty registry
\* before a rejected join has none after it.
C14_RejectedOrUnknownChangesNothing ==
    [][\A m \in {JoinRejected, UnknownMsg} :
        HandleServerMessage(m) =>
            UNCHANGED <<myPlayerId, players, playerRenderState, avatars,
                        loadedImages, viewportX, viewportY>>]_vars

\* a join was rejected after p1 had joined with p2 in the registry: both are
\* still there, with their render states
C14_Witness ==
    /\ lastOp.op = "message"
    /\ lastOp.msg = JoinRejected
    /\ lastOp.known = {"p1", "p2"}
    /\ myPlayerId = "p1"
    /\ DOMAIN players = {"p1", "p2"}
    /\ DOMAIN playerRenderState = {"p1", "p2"}

\* C16: after an accepted join, from any prior state, the registry is exactly
\* the snapshot of the message and every entity of it has a render state whose
\* smoothed position is the entity's authoritative position, with frame cursor 0
\* and accumulator 0.
C16_JoinSeedsEveryRenderState ==
    [][\A m \in RecMsgs :
        (m.action = "join_game" /\ m.success /\ HandleServerMessage(m)) =>
            /\ players' = m.players
            /\ \A id \in DOMAIN m.players :
                  /\ id \in DOMAIN playerRenderState'
                  /\ playerRenderState'[id] =
                        [renderX |-> Field(m.players[id], "x"),
                         renderY |-> Field(m.players[id], "y"),
                         animMs |-> 0, frameIndex |-> 0]]_vars

-----------------------------------------------------------------------------
(* The animation cursor of one entity that starts and stops moving *)

AnimMsgs ==
    { JoinAccepted("p1", ents, {"a1"}) : ents \in Maps({"p1"}, FullEnts) }
    \cup { PlayersMoved(ents) : ents \in Maps({"p1"}, FullEnts \cup PartialEnts) }

AnimFrameMs == {0, 50, animationFrameDurationMs, 250}
AnimKeys == {"ArrowUp"}

NextAnim ==
    \/ \E m \in AnimMsgs : HandleServerMessage(m)
    \/ \E elapsed \in AnimFrameMs : Tick(elapsed)
    \/ \E key \in AnimKeys : onKeyDown(key)
    \/ \E key \in AnimKeys : onKeyUp(key)

SpecAnim == Init /\ [][NextAnim]_vars

AnyTick == \E elapsed \in AnimFrameMs : Tick(elapsed)

\* C7: after any tick, every entity whose movement flag is false has frame cursor
\* 0 and accumulator 0, whatever they were before and whatever dt was.
C7_IdlePose ==
    [][AnyTick =>
        \A id \in DOMAIN players :
            ~IsMoving(players[id]) =>
                /\ playerRenderState'[id].frameIndex = 0
                /\ playerRenderState'[id].animMs = 0]_vars

\* a tick of 250 ms found p1 idle with cursor 2 and 10 ms accumulated, and reset both
C7_Witness ==
    /\ lastOp.op = "tick"
    /\ lastOp.dtMs = 250
    /\ "p1" \in lastOp.idled
    /\ lastOp.was["p1"].frameIndex = 2
    /\ lastOp.was["p1"].animMs = 10
    /\ playerRenderState["p1"].frameIndex = 0
    /\ playerRenderState["p1"].animMs = 0

\* C8: for a moving entity whose accumulator is 0, a tick of exactly one frame
\* duration advances the cursor by one modulo 3 and leaves the accumulator 0 (so
\* from cursor 0 the cursor runs 0,1,2,0,1,2,...); and after every tick, of any
\* length, the cursor of a moving entity is in 0..2 and its accumulator is below
\* one frame duration.
C8_FrameCycling ==
    [][AnyTick =>
        \A id \in DOMAIN players :
            IsMoving(players[id]) =>
                LET before == lastOp'.was[id]
                    after == playerRenderState'[id]
                IN  /\ after.frameIndex \in 0 .. (FrameCount - 1)
                    /\ after.animMs \in 0 .. (animationFrameDurationMs - 1)
                    /\ (lastOp'.dtMs = animationFrameDurationMs /\ before.animMs = 0) =>
                          /\ after.frameIndex = (before.frameIndex + 1) % FrameCount
                          /\ after.animMs = 0]_vars

\* a tick of one frame duration took a moving p1 from cursor 2 back to cursor 0
C8_Witness ==
    /\ lastOp.op = "tick"
    /\ lastOp.dtMs = animationFrameDurationMs
    /\ "p1" \in DOMAIN players
    /\ IsMoving(players["p1"])
    /\ lastOp.was["p1"].frameIndex = 2
    /\ lastOp.was["p1"].animMs = 0
    /\ playerRenderState["p1"].frameIndex = 0
    /\ playerRenderState["p1"].animMs = 0

-----------------------------------------------------------------------------
(* The camera of a local player that moves about the world, in windows smaller *)
(* than, as large as and larger than the world                                 *)

CamPositions == {0, 600, 2040}

CamEnts == { Entity(x, y, "south", TRUE) : x \in CamPositions, y \in {0, 2040} }

CamMsgs ==
    { JoinAccepted("p1", ents, {"a1"}) : ents \in Maps({"p1"}, CamEnts) }
    \cup { PlayersMoved(ents) : ents \in Maps({"p1"}, CamEnts \cup {[isMoving |-> FALSE]}) }
    \cup { PlayerLeft("p1") }

CamFrameMs == {0, 100}

NextCam ==
    \/ \E m \in CamMsgs : HandleServerMessage(m)
    \/ \E elapsed \in CamFrameMs : Tick(elapsed)
    \/ \E w, h \in WindowSizes : Resize(w, h)

InitCam == Constructed(WindowSizes, WindowSizes)

SpecCam == InitCam /\ [][NextCam]_vars

\* a step that recenters the camera: a tick or an accepted join, with the local
\* player in the registry
Recenter ==
    /\ \/ \E elapsed \in CamFrameMs : Tick(elapsed)
       \/ \E m \in CamMsgs : m.action = "join_game" /\ HandleServerMessage(m)
    /\ myPlayerId' \in DOMAIN players'

\* the clamp on one axis
Clamped(offset, viewportSize, worldSize) ==
    /\ IsNum(offset)
    /\ IF viewportSize > worldSize
       THEN offset.v = 0
       ELSE offset.v \in 0 .. (worldSize - viewportSize)

\* C9: after any recenter, on each axis the viewport offset is 0 when the viewport
\* is larger than the world, and lies in [0, worldSize - viewportSize] otherwise.
C9_CameraClamp ==
    [][Recenter =>
        /\ Clamped(viewportX', canvasWidth, worldWidth)
        /\ Clamped(viewportY', canvasHeight, worldHeight)]_vars

\* the same clamp for a focus point that is a number on both axes
C9_CameraClampOfNumbers ==
    [][(Recenter /\ IsNum(playerRenderState'[myPlayerId'].renderX)
                 /\ IsNum(playerRenderState'[myPlayerId'].renderY)) =>
        /\ Clamped(viewportX', canvasWidth, worldWidth)
        /\ Clamped(viewportY', canvasHeight, worldHeight)]_vars

-----------------------------------------------------------------------------
(* Smoothing of one entity toward authoritative positions SmoothGap grid steps *)
(* apart                                                                       *)

SmoothGap == 8

SmoothEnts == { Entity(x, y, "south", FALSE) :
                    x \in {100, 100 + SmoothGap}, y \in {100, 100 + SmoothGap \div 2} }

SmoothMsgs ==
    { JoinAccepted("p1", ents, {"a1"}) : ents \in Maps({"p1"}, SmoothEnts) }
    \cup { PlayersMoved(ents) : ents \in Maps({"p1"}, SmoothEnts) }

SmoothFrameMs == {0, 16, 50, 250}

NextSmooth ==
    \/ \E m \in SmoothMsgs : HandleServerMessage(m)
    \/ \E elapsed \in SmoothFrameMs : Tick(elapsed)

SpecSmooth == Init /\ [][NextSmooth]_vars

Abs(n) == IF n < 0 THEN -n ELSE n

\* r is not on the other side of the target p than r0 was
SameSide(r0, r, p) == (r0 <= p => r <= p) /\ (r0 >= p => r >= p)

\* the entities a tick smooths with numbers on both sides of the subtraction
Smoothed == { id \in DOMAIN players :
                /\ IsNum(Field(players[id], "x"))
                /\ IsNum(Field(players[id], "y"))
                /\ IsNum(lastOp'.was[id].renderX)
                /\ IsNum(lastOp'.was[id].renderY) }

SmoothTick == \E elapsed \in SmoothFrameMs : elapsed > 0 /\ Tick(elapsed)

\* C10 as stated: every tick with dt > 0 strictly decreases the distance between
\* smoothed and authoritative position on each axis where it is not zero, and the
\* smoothed value never passes to the other side of the authoritative value.
C10_Original ==
    [][SmoothTick =>
        \A id \in Smoothed :
            LET p == players[id]
                r0 == lastOp'.was[id]
                r == playerRenderState'[id]
            IN  /\ p.x # r0.renderX.v => Abs(p.x - r.renderX.v) < Abs(p.x - r0.renderX.v)
                /\ p.y # r0.renderY.v => Abs(p.y - r.renderY.v) < Abs(p.y - r0.renderY.v)
                /\ SameSide(r0.renderX.v, r.renderX.v, p.x)
                /\ SameSide(r0.renderY.v, r.renderY.v, p.y)]_vars

\* the distance on one axis after a tick with factor t (in thousandths): never
\* larger, never on the other side, and smaller when the step distance * t is
\* more than half a grid step
Converges(r0, r, p, t) ==
    /\ Abs(p - r) <= Abs(p - r0)
    /\ SameSide(r0, r, p)
    /\ 2 * Abs(p - r0) * t > 1000 => Abs(p - r) < Abs(p - r0)

\* C10 amended: with the authoritative position held fixed, a tick with dt > 0
\* never increases the per-axis distance between smoothed and authoritative
\* position and never moves the smoothed value to the other side, for any dt
\* however large; it strictly decreases the distance when distance * min(1, dt *
\* rate) is more than half the spacing of the representable positions, and may
\* leave the smoothed value where it is otherwise.
C10_ConvergesWithoutOvershoot ==
    [][SmoothTick =>
        \A id \in Smoothed :
            LET p == players[id]
                r0 == lastOp'.was[id]
                r == playerRenderState'[id]
                t == Min(1000, lastOp'.dtMs * positionSmoothingPerSecond)
            IN  /\ Converges(r0.renderX.v, r.renderX.v, p.x, t)
                /\ Converges(r0.renderY.v, r.renderY.v, p.y, t)]_vars

\* a tick of 250 ms took p1 from SmoothGap steps away onto the authoritative x
C10_Witness ==
    /\ lastOp.op = "tick"
    /\ lastOp.dtMs = 250
    /\ "p1" \in DOMAIN players
    /\ players["p1"].x = 100 + SmoothGap
    /\ lastOp.was["p1"].renderX = Num(100)
    /\ playerRenderState["p1"].renderX = Num(100 + SmoothGap)

SmoothAnyTick == \E elapsed \in SmoothFrameMs : Tick(elapsed)

SnapsOnlyWhenClose(r0, r, p, t) ==
    r0 # p => /\ t = 1000 => r = p
              /\ 2 * Abs(p - r0) * (1000 - t) > 1000 => r # p

-----------------------------------------------------------------------------
(* Frames that do not parse, messages that lack fields, and a world image that *)
(* fails to load                                                               *)

MalformedMsgs ==
    { PlayerJoinedNoAvatar(id, ent) : id \in Ids, ent \in FullEnts }
    \cup { PlayerJoinedNoPlayer }

MalformedData == { Garbage } \cup { Json(m) : m \in MalformedMsgs }

FaultData ==
    MalformedData
    \cup { Json(JoinAccepted("p1", ents, {"a1"})) : ents \in Maps({"p1"}, FullEnts) }
    \cup { Json(PlayersMoved(ents)) : ents \in Maps({"p1"}, FullEnts) }
    \cup { Json(PlayerLeft(id)) : id \in Ids }

FaultFrameMs == {animationFrameDurationMs}

NextFault ==
    \/ \E data \in FaultData : onMessage(data)
    \/ \E elapsed \in FaultFrameMs : Tick(elapsed)
    \/ onWorldLoad
    \/ onWorldError

SpecFault == Init /\ [][NextFault]_vars

\* C13: a frame that fails to parse, or a message whose handling raises because
\* fields its kind requires are missing, changes no state: registry, render
\* states, visual-set table, local identifier and camera are as before.
C13_MalformedChangesNothing ==
    [][(\E data \in MalformedData : onMessage(data)) =>
          UNCHANGED <<players, playerRenderState, avatars, loadedImages,
                      myPlayerId, viewportX, viewportY>>]_vars

\* C15: the frame driver never stops: after every event and every tick the next
\* tick is scheduled.
C15_NextTickScheduled == rafPending

-----------------------------------------------------------------------------
(* The jump gesture of a joined local player *)

JumpKeys == {" ", "ArrowUp"}

JumpMsgs ==
    { JoinAccepted("p1", [id \in {"p1"} |-> Entity(100, 100, "south", FALSE)], {"a1"}) }

JumpFrameMs == {50, 100, 150}

NextJump ==
    \/ \E key \in JumpKeys : onKeyDown(key)
    \/ \E key \in JumpKeys : onKeyUp(key)
    \/ onOpen
    \/ \E m \in JumpMsgs : HandleServerMessage(m)
    \/ \E elapsed \in JumpFrameMs : Tick(elapsed)

SpecJump == Init /\ [][NextJump]_vars

\* C18: a jump trigger while a jump is in progress leaves the jump's elapsed time
\* and in-progress flag as they are; a trigger with no jump in progress starts
\* one at elapsed 0; and no trigger issues an intent, sends a message or changes
\* the registry.
C18_TriggerIgnoredMidJump ==
    [][onKeyDown(" ") =>
        /\ jumpState.isJumping => jumpState' = jumpState
        /\ ~jumpState.isJumping => jumpState' = [isJumping |-> TRUE, elapsedMs |-> 0]
        /\ intents' = <<>>
        /\ sent' = <<>>
        /\ players' = players]_vars

\* the jump key was pressed with the socket open and p1 joined while a jump had
\* run for some time, and the jump went on from there
C18_Witness ==
    /\ lastOp = [op |-> "keydown", key |-> " "]
    /\ jumpState.isJumping
    /\ jumpState.elapsedMs > 0
    /\ wsState = "open"
    /\ "p1" \in DOMAIN players

JumpTick == \E elapsed \in JumpFrameMs : Tick(elapsed)

\* C19: a tick during a jump leaves the jump in progress exactly when less than
\* durationMs of real time has passed since the trigger, wherever the trigger
\* fell between two ticks, and a tick that ends the jump leaves elapsed 0.
C19_JumpLastsItsDuration ==
    [][(JumpTick /\ jumpState.isJumping) =>
        LET sinceTrigger == frameSinceTrigger + lastOp'.dtMs
        IN  /\ jumpState'.isJumping <=> sinceTrigger < durationMs
            /\ ~jumpState'.isJumping => jumpState'.elapsedMs = 0]_vars

====
